---- MODULE Spec2Model ----
(***************************************************************************)
(* pfSense support of cloud-init: the config.xml document store            *)
(* (cloudinit/distros/pfsense_utils.py) and the user/group provisioning    *)
(* built on it (cloudinit/distros/pfsense.py, class Distro).               *)
(*                                                                         *)
(* A text is a sequence of one-character strings, so that str.strip(),     *)
(* str.startswith(), int() and str() are computed, not assumed.  The empty *)
(* sequence is the text of an element that has none: lxml reads            *)
(* <a></a> and <a/> back with text None, and every store operation parses  *)
(* the file afresh, so "" and None never differ in a stored document.      *)
(***************************************************************************)
EXTENDS Integers, Sequences, FiniteSets, TLC

VARIABLES files, trace, steps

vars == <<files, trace, steps>>

(***************************************************************************)
(* Texts                                                                   *)
(***************************************************************************)
Digits == <<"0", "1", "2", "3", "4", "5", "6", "7", "8", "9">>

IsSpace(c) == c \in {" ", "\n", "\t"}

IsDigit(c) == \E i \in 1..10 : Digits[i] = c

DigitVal(c) == (CHOOSE i \in 1..10 : Digits[i] = c) - 1

RECURSIVE lstrip(_)
lstrip(t) == IF t # <<>> /\ IsSpace(Head(t)) THEN lstrip(Tail(t)) ELSE t

RECURSIVE rstrip(_)
rstrip(t) ==
    IF t # <<>> /\ IsSpace(t[Len(t)]) THEN rstrip(SubSeq(t, 1, Len(t) - 1)) ELSE t

\* str.strip()
strip(t) == rstrip(lstrip(t))

\* str.startswith(prefix)
startswith(t, prefix) ==
    Len(t) >= Len(prefix) /\ SubSeq(t, 1, Len(prefix)) = prefix

RECURSIVE DigitsValue(_)
DigitsValue(t) ==
    IF t = <<>> THEN 0
    ELSE 10 * DigitsValue(SubSeq(t, 1, Len(t) - 1)) + DigitVal(t[Len(t)])

AllDigits(t) == t # <<>> /\ \A i \in 1..Len(t) : IsDigit(t[i])

\* int(text) raises ValueError unless the text, stripped, is an optionally
\* signed run of digits
int_ok(t) ==
    LET s == strip(t) IN
    \/ AllDigits(s)
    \/ Len(s) > 1 /\ s[1] \in {"+", "-"} /\ AllDigits(Tail(s))

int(t) ==
    LET s == strip(t) IN
    IF s[1] = "-" THEN 0 - DigitsValue(Tail(s))
    ELSE IF s[1] = "+" THEN DigitsValue(Tail(s))
    ELSE DigitsValue(s)

RECURSIVE NatStr(_)
NatStr(n) ==
    IF n < 10 THEN <<Digits[n + 1]>> ELSE NatStr(n \div 10) \o <<Digits[(n % 10) + 1]>>

\* str(n) of an integer
str(n) == IF n < 0 THEN <<"-">> \o NatStr(0 - n) ELSE NatStr(n)

(***************************************************************************)
(* Python values of the mapping view: None, a string, a list, a dict (an   *)
(* insertion-ordered sequence of key/value pairs).  One record shape for   *)
(* all four, so that any two values can be compared.                       *)
(***************************************************************************)
None == [kind |-> "none", text |-> <<>>, items |-> <<>>]

Str(t) == [kind |-> "str", text |-> t, items |-> <<>>]

List(xs) == [kind |-> "list", text |-> <<>>, items |-> xs]

Dict(ps) == [kind |-> "dict", text |-> <<>>, items |-> ps]

Pair(k, v) == [key |-> k, val |-> v]

\* key in d
HasKey(d, k) == d.kind = "dict" /\ \E i \in 1..Len(d.items) : d.items[i].key = k

KeyIndex(d, k) == CHOOSE i \in 1..Len(d.items) : d.items[i].key = k

\* d[key]
Get(d, k) == d.items[KeyIndex(d, k)].val

\* d[key] = value: an existing key keeps its place, a new key goes last
Put(d, k, v) ==
    IF HasKey(d, k)
    THEN Dict([d.items EXCEPT ![KeyIndex(d, k)] = Pair(k, v)])
    ELSE Dict(Append(d.items, Pair(k, v)))

\* del d[key]
Del(d, k) ==
    Dict(SubSeq(d.items, 1, KeyIndex(d, k) - 1)
         \o SubSeq(d.items, KeyIndex(d, k) + 1, Len(d.items)))

(***************************************************************************)
(* Elements of the tree                                                    *)
(***************************************************************************)
Element(tag, text, kids) == [tag |-> tag, attrib |-> <<>>, text |-> text, kids |-> kids]

Leaf(tag, text) == Element(tag, text, <<>>)

(***************************************************************************)
(* Document codec                                                          *)
(***************************************************************************)
RECURSIVE _element_to_dict(_)
RECURSIVE FoldChildren(_, _, _)

\* the loop over the children: the first child of a tag is stored as it is,
\* a later one turns the entry into a list and is appended to it
\* obj[child.tag] when the tag is there already: made a list, and appended to
Promote(cur, child_obj) ==
    List(Append(IF cur.kind = "list" THEN cur.items ELSE <<cur>>, child_obj))

\* a later child of the tag takes the place of the earlier one
FoldChild_overwrites(obj, tag, child_obj) == Put(obj, tag, child_obj)

FoldChild(obj, tag, child_obj) ==
    IF ~HasKey(obj, tag) THEN Put(obj, tag, child_obj)
    ELSE Put(obj, tag, Promote(Get(obj, tag), child_obj))

FoldChildren(obj, kids, i) ==
    IF i > Len(kids) THEN obj
    ELSE FoldChildren(FoldChild(obj, kids[i].tag, _element_to_dict(kids[i])), kids, i + 1)

_element_to_dict(element) ==
    IF element.kids = <<>>
    THEN IF strip(element.text) # <<>> THEN Str(strip(element.text)) ELSE None
    ELSE FoldChildren(Dict(element.attrib), element.kids, 1)

RECURSIVE _dict_to_element(_, _)
RECURSIVE ItemsToElements(_, _, _)
RECURSIVE EntriesToElements(_, _)

\* for item in value: element.append(_dict_to_element(key, item))
ItemsToElements(key, xs, i) ==
    IF i > Len(xs) THEN <<>>
    ELSE <<_dict_to_element(key, xs[i])>> \o ItemsToElements(key, xs, i + 1)

\* for key, value in data.items()
EntryToElements(key, value) ==
    CASE value.kind = "list" -> ItemsToElements(key, value.items, 1)
      [] value.kind = "dict" -> <<_dict_to_element(key, value)>>
      [] value.kind = "none" -> <<Leaf(key, <<>>)>>
      [] value.kind = "str" -> <<Leaf(key, value.text)>>

EntriesToElements(ps, i) ==
    IF i > Len(ps) THEN <<>>
    ELSE EntryToElements(ps[i].key, ps[i].val) \o EntriesToElements(ps, i + 1)

_dict_to_element(tag, data) ==
    CASE data.kind = "dict" -> Element(tag, <<>>, EntriesToElements(data.items, 1))
      [] data.kind = "none" -> Leaf(tag, <<>>)
      [] data.kind = "str" -> Leaf(tag, data.text)
      \* str(a list) is its repr; no caller passes one
      [] data.kind = "list" -> Leaf(tag, <<"[", "]">>)

(***************************************************************************)
(* Path resolution: root.xpath("/a/b/c") with the path as its tags.  A     *)
(* match is named by its location, the child indices from the root down.   *)
(***************************************************************************)
RECURSIVE NodeAt(_, _)
NodeAt(node, loc) ==
    IF loc = <<>> THEN node ELSE NodeAt(node.kids[Head(loc)], Tail(loc))

RECURSIVE ReplaceAt(_, _, _)
ReplaceAt(node, loc, new) ==
    IF loc = <<>> THEN new
    ELSE [node EXCEPT !.kids[Head(loc)] = ReplaceAt(@, Tail(loc), new)]

RECURSIVE Descend(_, _, _)
RECURSIVE DescendChildren(_, _, _, _)

DescendChildren(node, loc, rest, i) ==
    IF i > Len(node.kids) THEN <<>>
    ELSE (IF node.kids[i].tag = Head(rest)
          THEN Descend(node.kids[i], Append(loc, i), Tail(rest))
          ELSE <<>>)
         \o DescendChildren(node, loc, rest, i + 1)

Descend(node, loc, rest) ==
    IF rest = <<>> THEN <<loc>> ELSE DescendChildren(node, loc, rest, 1)

\* the matches of the path, in document order
xpath(root, tree_path) ==
    IF tree_path = <<>> \/ Head(tree_path) # root.tag THEN <<>>
    ELSE Descend(root, <<>>, Tail(tree_path))

\* tree_path.rsplit("/", 1)
ParentPath(tree_path) == SubSeq(tree_path, 1, Len(tree_path) - 1)

LeafTag(tree_path) == tree_path[Len(tree_path)]

\* node.getparent()
getparent(loc) == SubSeq(loc, 1, Len(loc) - 1)

\* parent.append(child)
AppendChild(root, ploc, child) ==
    ReplaceAt(root, ploc, [NodeAt(root, ploc) EXCEPT !.kids = Append(@, child)])

\* the sequence without its i-th element
Without(seq, i) == SubSeq(seq, 1, i - 1) \o SubSeq(seq, i + 1, Len(seq))

\* parent.remove(node)
RemoveChild(root, loc) ==
    ReplaceAt(root, getparent(loc),
        [NodeAt(root, getparent(loc)) EXCEPT !.kids = Without(@, loc[Len(loc)])])

\* element.find(tag): the first child with the tag, 0 for None
find(element, tag) ==
    IF \E i \in 1..Len(element.kids) : element.kids[i].tag = tag
    THEN CHOOSE i \in 1..Len(element.kids) :
             /\ element.kids[i].tag = tag
             /\ \A j \in 1..(i - 1) : element.kids[j].tag # tag
    ELSE 0

(***************************************************************************)
(* Document store.  Every operation parses the file, changes the tree and  *)
(* writes it back.  An outcome is the files afterwards, the value returned *)
(* and the exception raised ("" for none).                                 *)
(***************************************************************************)
DefaultFp == "/cf/conf/config.xml"

AltFp == "/tmp/config.xml"

Return(fs, ret) == [fs |-> fs, ret |-> ret, exc |-> ""]

Raise(fs, exc) == [fs |-> fs, ret |-> "", exc |-> exc]

\* tree.write(fp, pretty_print=True)
write(fs, fp, root) == [fs EXCEPT ![fp] = root]

\* without a parent the element goes under the root, the file is written, and
\* the failure is raised after that
AppendToFirst_persists(fs, fp, parents, new) ==
    IF parents = <<>> THEN Raise(write(fs, fp, AppendChild(fs[fp], <<>>, new)), "IndexError")
    ELSE Return(write(fs, fp, AppendChild(fs[fp], parents[1], new)), "None")

\* parent = root.xpath(parent_path)[0]; parent.append(...); tree.write(fp)
AppendToFirst(fs, fp, parents, new) ==
    IF parents = <<>> THEN Raise(fs, "IndexError")
    ELSE Return(write(fs, fp, AppendChild(fs[fp], parents[1], new)), "None")

append_config_element(fs, tree_path, element, fp) ==
    IF ParentPath(tree_path) = <<>> THEN Raise(fs, "XPathEvalError")
    ELSE AppendToFirst(fs, fp, xpath(fs[fp], ParentPath(tree_path)),
                       _dict_to_element(LeafTag(tree_path), element))

\* n.find(key).text == value, for a key child that is there
KeyMatches(n, k, value) == n.kids[k].text # <<>> /\ n.kids[k].text = value

\* the scan for the old node: the index of the first match whose key child
\* has the text value, 0 when there is none, -1 when a match examined before
\* that has no key child (AttributeError on None.text)
RECURSIVE ScanKey(_, _, _, _, _)
ScanKey(root, nodes, key, value, i) ==
    IF i > Len(nodes) THEN 0
    ELSE IF find(NodeAt(root, nodes[i]), key) = 0 THEN -1
    ELSE IF KeyMatches(NodeAt(root, nodes[i]), find(NodeAt(root, nodes[i]), key), value)
    THEN i
    ELSE ScanKey(root, nodes, key, value, i + 1)

\* parent = old_node.getparent(); parent.remove(old_node); parent.append(...)
Swap(root, old_node, new) == AppendChild(RemoveChild(root, old_node), getparent(old_node), new)

ReplaceFound(fs, tree_path, node, fp, nodes, old) ==
    IF old = -1 THEN Raise(fs, "AttributeError")
    ELSE IF old = 0 THEN append_config_element(fs, tree_path, node, DefaultFp)
    \* the root has no parent: None.remove
    ELSE IF nodes[old] = <<>> THEN Raise(fs, "AttributeError")
    ELSE Return(write(fs, fp,
             Swap(fs[fp], nodes[old], _dict_to_element(LeafTag(tree_path), node))),
             "None")

ReplaceAmong(fs, tree_path, key, value, node, fp, nodes) ==
    ReplaceFound(fs, tree_path, node, fp, nodes, ScanKey(fs[fp], nodes, key, value, 1))

replace_config_element(fs, tree_path, key, value, node, fp) ==
    ReplaceAmong(fs, tree_path, key, value, node, fp, xpath(fs[fp], tree_path))

\* node = root.xpath(tree_path)[0]; node.text = value; tree.write(fp)
SetFirst(fs, fp, nodes, value) ==
    IF nodes = <<>> THEN Raise(fs, "IndexError")
    ELSE Return(write(fs, fp,
             ReplaceAt(fs[fp], nodes[1], [NodeAt(fs[fp], nodes[1]) EXCEPT !.text = value])),
             "None")

\* the leaf that is not there is made under its parent
set_config_value_creates(fs, tree_path, value, fp) ==
    IF xpath(fs[fp], tree_path) = <<>> /\ xpath(fs[fp], ParentPath(tree_path)) # <<>>
    THEN Return(write(fs, fp, AppendChild(fs[fp], xpath(fs[fp], ParentPath(tree_path))[1],
                                          Leaf(LeafTag(tree_path), value))), "None")
    ELSE SetFirst(fs, fp, xpath(fs[fp], tree_path), value)

set_config_value(fs, tree_path, value, fp) ==
    SetFirst(fs, fp, xpath(fs[fp], tree_path), value)

\* key in n: an element holds elements, a str is never one of them
KeyIn(n, key) == FALSE

\* the test of the removal loop for one match: "remove", "keep", or "raise"
\* where it goes on to n["key"], which is a TypeError
RemoveTest(n, key, value) ==
    IF key = <<>> \/ value.kind = "none" THEN "remove"
    ELSE IF KeyIn(n, key[1]) THEN "raise"
    ELSE "keep"

\* the exception of the removal loop, "" for none: the TypeError above, or
\* the AttributeError of None.remove for the root, which has no parent
RECURSIVE RemoveError(_, _, _, _, _)
RemoveError(root, nodes, key, value, i) ==
    IF i > Len(nodes) THEN ""
    ELSE IF RemoveTest(NodeAt(root, nodes[i]), key, value) = "raise" THEN "TypeError"
    ELSE IF RemoveTest(NodeAt(root, nodes[i]), key, value) = "remove" /\ nodes[i] = <<>>
    THEN "AttributeError"
    ELSE RemoveError(root, nodes, key, value, i + 1)

\* the tree after the loop; the matches are taken from the last to the first,
\* which leaves the locations of those still to come as they were
RECURSIVE RemoveEach(_, _, _, _, _)
RemoveEach(root, nodes, key, value, i) ==
    IF i = 0 THEN root
    ELSE RemoveEach(IF RemoveTest(NodeAt(root, nodes[i]), key, value) = "remove"
                    THEN RemoveChild(root, nodes[i]) ELSE root,
                    nodes, key, value, i - 1)

RemoveAmong(fs, key, value, fp, nodes) ==
    IF RemoveError(fs[fp], nodes, key, value, 1) # ""
    THEN Raise(fs, RemoveError(fs[fp], nodes, key, value, 1))
    ELSE Return(write(fs, fp, RemoveEach(fs[fp], nodes, key, value, Len(nodes))), "None")

\* key and value are optional: key is <<>> for None, value is None or a text
remove_config_element(fs, tree_path, key, value, fp) ==
    RemoveAmong(fs, key, value, fp, xpath(fs[fp], tree_path))

\* [_element_to_dict(node) for node in nodes]
RECURSIVE MapElements(_, _, _)
MapElements(root, nodes, i) ==
    IF i > Len(nodes) THEN <<>>
    ELSE <<_element_to_dict(NodeAt(root, nodes[i]))>> \o MapElements(root, nodes, i + 1)

\* a list whatever the number of matches
GetAmong_list(fs, root, nodes) == Return(fs, List(MapElements(root, nodes, 1)))

\* one match is returned as it is, any other number as a list; the value
\* returned is a value of the mapping view
GetAmong(fs, root, nodes) ==
    IF Len(nodes) = 1 THEN Return(fs, _element_to_dict(NodeAt(root, nodes[1])))
    ELSE Return(fs, List(MapElements(root, nodes, 1)))

get_config_element(fs, tree_path, fp) == GetAmong(fs, fs[fp], xpath(fs[fp], tree_path))

\* node = root.xpath(tree_path)[0]; return node.text
TextOfFirst(fs, root, nodes) ==
    IF nodes = <<>> THEN Raise(fs, "IndexError")
    ELSE IF NodeAt(root, nodes[1]).text = <<>> THEN Return(fs, None)
    ELSE Return(fs, Str(NodeAt(root, nodes[1]).text))

get_config_value(fs, tree_path, fp) == TextOfFirst(fs, fs[fp], xpath(fs[fp], tree_path))

\* The plural readers the provisioner calls: every match of the path, as
\* records and as raw texts.
get_config_elements(fs, tree_path) ==
    MapElements(fs[DefaultFp], xpath(fs[DefaultFp], tree_path), 1)

Texts(root, nodes) == [i \in 1..Len(nodes) |-> NodeAt(root, nodes[i]).text]

get_config_values(fs, tree_path) ==
    Texts(fs[DefaultFp], xpath(fs[DefaultFp], tree_path))

\* reloads the running system from the document; the document is not touched
sync_users_groups(fs) == fs

(***************************************************************************)
(* datetime.strptime(val, "%Y-%m-%d").strftime("%d/%m/%Y")                 *)
(***************************************************************************)
RECURSIVE SplitOn(_, _)
\* val.split(c)
SplitOn(t, c) ==
    IF \E i \in 1..Len(t) : t[i] = c
    THEN LET i == CHOOSE k \in 1..Len(t) : t[k] = c /\ \A j \in 1..(k - 1) : t[j] # c
         IN  <<SubSeq(t, 1, i - 1)>> \o SplitOn(SubSeq(t, i + 1, Len(t)), c)
    ELSE <<t>>

IsLeap(y) == (y % 4 = 0 /\ y % 100 # 0) \/ y % 400 = 0

DaysInMonth(y, m) ==
    IF m = 2 THEN (IF IsLeap(y) THEN 29 ELSE 28)
    ELSE IF m \in {4, 6, 9, 11} THEN 30 ELSE 31

\* %d also takes a space and one digit
DayDigits(d) == IF Len(d) = 2 /\ d[1] = " " THEN Tail(d) ELSE d

\* whether strptime accepts the text: four digits of year, one or two of
\* month and of day, and a date that exists
strptime_ok(val) ==
    LET parts == SplitOn(val, "-") IN
    /\ Len(parts) = 3
    /\ Len(parts[1]) = 4 /\ AllDigits(parts[1]) /\ DigitsValue(parts[1]) >= 1
    /\ Len(parts[2]) \in {1, 2} /\ AllDigits(parts[2])
    /\ DigitsValue(parts[2]) \in 1..12
    /\ Len(parts[3]) \in {1, 2} /\ AllDigits(DayDigits(parts[3]))
    /\ DigitsValue(DayDigits(parts[3])) \in
           1..DaysInMonth(DigitsValue(parts[1]), DigitsValue(parts[2]))

TwoDigits(n) == IF n < 10 THEN <<"0">> \o NatStr(n) ELSE NatStr(n)

\* the display form of an accepted date (years of four digits)
FormatDate(val) ==
    LET parts == SplitOn(val, "-") IN
    TwoDigits(DigitsValue(DayDigits(parts[3]))) \o <<"/">>
        \o TwoDigits(DigitsValue(parts[2])) \o <<"/">> \o parts[1]

\* bcrypt.hashpw(passwd, bcrypt.gensalt()): a text of the $2b$ scheme that
\* the salt and the password determine
hashpw(passwd, salt) == <<"$", "2", "b", "$">> \o salt \o <<"$">> \o passwd

(***************************************************************************)
(* Identity provisioner (class Distro)                                     *)
(***************************************************************************)
user_node == <<"pfsense", "system", "user">>

group_node == <<"pfsense", "system", "group">>

next_uid_node == <<"pfsense", "system", "nextuid">>

next_gid_node == <<"pfsense", "system", "nextgid">>

\* u["name"] == name
NameIs(u, name) == Get(u, "name").kind = "str" /\ Get(u, "name").text = name

\* for u in users: if u["name"] == name: node = u; break
\* the index found, 0 for none, -1 when u["name"] raises first
RECURSIVE ScanName(_, _, _)
ScanName(records, name, i) ==
    IF i > Len(records) THEN 0
    ELSE IF ~HasKey(records[i], "name") THEN -1
    ELSE IF NameIs(records[i], name) THEN i
    ELSE ScanName(records, name, i + 1)

\* [u for u in users if u["name"] == name]: every record is examined
AllNamed(records) == \A i \in 1..Len(records) : HasKey(records[i], "name")

AnyNamed(records, name) == \E i \in 1..Len(records) : NameIs(records[i], name)

\* pf_utils.sync_users_groups(); return ret -- unless r raised
Returning(r, ret) == IF r.exc # "" THEN r ELSE Return(sync_users_groups(r.fs), ret)

\* if not "member" in group: group["member"] = []
WithMember(group) ==
    IF ~HasKey(group, "member") THEN Put(group, "member", List(<<>>)) ELSE group

\* if not isinstance(group["member"], list): group["member"] = [group["member"]]
MemberAsList(group) ==
    IF Get(group, "member").kind # "list"
    THEN Put(group, "member", List(<<Get(group, "member")>>)) ELSE group

\* user_id in group["member"]
IsMember(group, user_id) ==
    \E i \in 1..Len(Get(group, "member").items) :
        Get(group, "member").items[i] = Str(user_id)

AddMember(fs, user_id, group_name, group) ==
    IF IsMember(group, user_id) THEN Return(fs, "True")
    ELSE Returning(
             replace_config_element(fs, group_node, "name", group_name,
                 Put(group, "member", List(Append(Get(group, "member").items, Str(user_id)))),
                 DefaultFp),
             "True")

AddToFound(fs, user_id, group_name, groups, found) ==
    IF found = -1 THEN Raise(fs, "KeyError")
    ELSE IF found = 0 THEN Return(fs, "False")
    ELSE AddMember(fs, user_id, group_name, MemberAsList(WithMember(groups[found])))

AddToGroupAmong(fs, user_id, group_name, groups) ==
    AddToFound(fs, user_id, group_name, groups, ScanName(groups, group_name, 1))

_add_user_to_group(fs, user_id, group_name) ==
    AddToGroupAmong(fs, user_id, group_name, get_config_elements(fs, group_node))

SetFound(fs, user, passwd, hashed, salt, users, found) ==
    IF found = -1 THEN Raise(fs, "KeyError")
    ELSE IF found = 0 THEN Return(fs, "False")
    ELSE IF hashed /\ ~startswith(passwd, <<"$", "2">>) THEN Return(fs, "False")
    ELSE Returning(
             replace_config_element(fs, user_node, "name", user,
                 Put(users[found], "bcrypt-hash",
                     Str(IF hashed THEN passwd ELSE hashpw(passwd, salt))),
                 DefaultFp),
             "True")

SetAmong(fs, user, passwd, hashed, salt, users) ==
    SetFound(fs, user, passwd, hashed, salt, users, ScanName(users, user, 1))

\* set_passwd; salt is what bcrypt.gensalt() returns when it is called
set_passwd(fs, user, passwd, hashed, salt) ==
    IF user = <<>> THEN Return(fs, "False")
    ELSE SetAmong(fs, user, passwd, hashed, salt, get_config_elements(fs, user_node))

LockFound(fs, name, users, found) ==
    IF found = -1 THEN Raise(fs, "KeyError")
    ELSE IF found = 0 THEN Return(fs, "False")
    ELSE Returning(
             replace_config_element(fs, user_node, "name", name,
                 Put(users[found], "disabled", Str(<<>>)), DefaultFp),
             "True")

LockAmong(fs, name, users) == LockFound(fs, name, users, ScanName(users, name, 1))

lock_passwd(fs, name) ==
    IF name = <<>> THEN Return(fs, "False")
    ELSE LockAmong(fs, name, get_config_elements(fs, user_node))

\* self.lock_passwd(user), its value dropped
DropValue(r) == IF r.exc # "" THEN r ELSE Return(r.fs, "None")

expire_passwd(fs, user) == DropValue(lock_passwd(fs, user))

UnlockFound(fs, name, users, found) ==
    IF found = -1 THEN Raise(fs, "KeyError")
    ELSE IF found = 0 THEN Return(fs, "False")
    ELSE IF ~HasKey(users[found], "disabled") THEN Raise(fs, "KeyError")
    ELSE Returning(
             replace_config_element(fs, user_node, "name", name,
                 Del(users[found], "disabled"), DefaultFp),
             "True")

UnlockAmong(fs, name, users) == UnlockFound(fs, name, users, ScanName(users, name, 1))

unlock_passwd(fs, name) ==
    IF name = <<>> THEN Return(fs, "False")
    ELSE UnlockAmong(fs, name, get_config_elements(fs, user_node))

\* if not members: []; a single member becomes a list of one
MemberList(members) ==
    IF members.kind = "none" \/ (members.kind = "list" /\ members.items = <<>>)
       \/ (members.kind = "str" /\ members.text = <<>>)
    THEN <<>>
    ELSE IF members.kind = "list" THEN members.items ELSE <<members>>

\* existing_names.index(member), 0 when member not in existing_names
NameIndex(existing_users, member) ==
    IF \E i \in 1..Len(existing_users) : Get(existing_users[i], "name") = member
    THEN CHOOSE i \in 1..Len(existing_users) :
             /\ Get(existing_users[i], "name") = member
             /\ \A j \in 1..(i - 1) : Get(existing_users[j], "name") # member
    ELSE 0

\* the loop over members: the uids collected, or the KeyError of a user
\* record without uid
RECURSIVE ResolveMembers(_, _, _, _)
RECURSIVE ResolveMember(_, _, _, _, _)

\* break in place of continue: a listed name nobody has ends the loop
ResolveMember_break(existing_users, members, i, acc, k) ==
    IF k = 0 THEN [ok |-> TRUE, member |-> acc]
    ELSE IF ~HasKey(existing_users[k], "uid") THEN [ok |-> FALSE, member |-> acc]
    ELSE ResolveMembers(existing_users, members, i + 1,
                        Append(acc, Get(existing_users[k], "uid")))

ResolveMember(existing_users, members, i, acc, k) ==
    IF k = 0 THEN ResolveMembers(existing_users, members, i + 1, acc)
    ELSE IF ~HasKey(existing_users[k], "uid") THEN [ok |-> FALSE, member |-> acc]
    ELSE ResolveMembers(existing_users, members, i + 1,
                        Append(acc, Get(existing_users[k], "uid")))

ResolveMembers(existing_users, members, i, acc) ==
    IF i > Len(members) THEN [ok |-> TRUE, member |-> acc]
    ELSE ResolveMember(existing_users, members, i, acc,
                       NameIndex(existing_users, members[i]))

GroupRecord(name, gid, member) ==
    Dict(<<Pair("name", Str(name)), Pair("description", Str(name)), Pair("gid", Str(gid)),
           Pair("scope", Str(<<"s", "y", "s", "t", "e", "m">>)),
           Pair("member", List(member))>>)

StoreGroup(fs, name, gid, resolved) ==
    IF ~resolved.ok THEN Raise(fs, "KeyError")
    ELSE Returning(
             append_config_element(fs, group_node, GroupRecord(name, gid, resolved.member),
                                   DefaultFp),
             "None")

ResolveAndStore(fs, name, gid, members, existing_users) ==
    IF ~AllNamed(existing_users) THEN Raise(fs, "KeyError")
    ELSE StoreGroup(fs, name, gid, ResolveMembers(existing_users, members, 1, <<>>))

\* what follows the write of the counter, unless that raised
AfterNextGid(r, name, gid, members) ==
    IF r.exc # "" THEN r
    ELSE ResolveAndStore(r.fs, name, gid, MemberList(members),
                         get_config_elements(r.fs, user_node))

AllocateGid(fs, name, members, gids) ==
    IF gids = <<>> THEN Raise(fs, "IndexError")
    ELSE IF gids[1] = <<>> THEN Raise(fs, "TypeError")
    ELSE IF ~int_ok(gids[1]) THEN Raise(fs, "ValueError")
    ELSE AfterNextGid(
             set_config_value(fs, next_gid_node, str(int(gids[1]) + 1), DefaultFp),
             name, gids[1], members)

CreateUnlessNamed(fs, name, members, groups) ==
    IF ~AllNamed(groups) THEN Raise(fs, "KeyError")
    ELSE IF AnyNamed(groups, name) THEN Return(fs, "False")
    ELSE AllocateGid(fs, name, members, get_config_values(fs, next_gid_node))

create_group(fs, name, members) ==
    IF name = <<>> THEN Return(fs, "False")
    ELSE CreateUnlessNamed(fs, name, members, get_config_elements(fs, group_node))

\* the first loop over kwargs: descr and expires, or the ValueError of a
\* date strptime rejects
RECURSIVE UserProperties(_, _, _)
UserProperties(user, kwargs, i) ==
    IF i > Len(kwargs) THEN [ok |-> TRUE, user |-> user]
    ELSE IF kwargs[i].key = "gecos"
    THEN UserProperties(Put(user, "descr", kwargs[i].val), kwargs, i + 1)
    ELSE IF kwargs[i].key = "expiredate"
    THEN IF ~strptime_ok(kwargs[i].val.text) THEN [ok |-> FALSE, user |-> user]
         ELSE UserProperties(Put(user, "expires", Str(FormatDate(kwargs[i].val.text))),
                             kwargs, i + 1)
    ELSE UserProperties(user, kwargs, i + 1)

\* for group in val: self._add_user_to_group(uid, group); a False is logged
RECURSIVE AddToGroups(_, _, _, _)
RECURSIVE NextGroup(_, _, _, _)

NextGroup(r, uid, val, i) == IF r.exc # "" THEN r ELSE AddToGroups(r.fs, uid, val, i)

AddToGroups(fs, uid, val, i) ==
    IF i > Len(val) THEN Return(fs, "None")
    ELSE NextGroup(_add_user_to_group(fs, uid, val[i].text), uid, val, i + 1)

RemainingProperty(fs, name, uid, key, val) ==
    IF key = "groups"
    THEN AddToGroups(fs, uid, IF val.kind = "list" THEN val.items ELSE <<val>>, 1)
    ELSE IF key = "passwd" THEN set_passwd(fs, name, val.text, TRUE, <<>>)
    ELSE Return(fs, "None")

\* the second loop over kwargs: groups and passwd, in the order given
RECURSIVE RemainingProperties(_, _, _, _, _)
RECURSIVE NextProperty(_, _, _, _, _)

NextProperty(r, name, uid, kwargs, i) ==
    IF r.exc # "" THEN r ELSE RemainingProperties(r.fs, name, uid, kwargs, i)

RemainingProperties(fs, name, uid, kwargs, i) ==
    IF i > Len(kwargs) THEN Return(fs, "None")
    ELSE NextProperty(RemainingProperty(fs, name, uid, kwargs[i].key, kwargs[i].val),
                      name, uid, kwargs, i + 1)

UserRecord(name, uid) ==
    Dict(<<Pair("name", Str(name)), Pair("uid", Str(uid)),
           Pair("scope", Str(<<"u", "s", "e", "r">>))>>)

\* what follows the append of the user record, unless that raised
AfterAppend(r, name, uid, kwargs) ==
    IF r.exc # "" THEN r
    ELSE Returning(RemainingProperties(r.fs, name, uid, kwargs, 1), "True")

StoreUser(fs, name, uid, kwargs, props) ==
    IF ~props.ok THEN Raise(fs, "ValueError")
    ELSE AfterAppend(append_config_element(fs, user_node, props.user, DefaultFp),
                     name, uid, kwargs)

\* what follows the write of the counter, unless that raised
AfterNextUid(r, name, uid, kwargs) ==
    IF r.exc # "" THEN r
    ELSE StoreUser(r.fs, name, uid, kwargs,
                   UserProperties(UserRecord(name, uid), kwargs, 1))

AllocateUid(fs, name, kwargs, uids) ==
    IF uids = <<>> THEN Raise(fs, "IndexError")
    ELSE IF uids[1] = <<>> THEN Raise(fs, "TypeError")
    ELSE IF ~int_ok(uids[1]) THEN Raise(fs, "ValueError")
    ELSE AfterNextUid(
             set_config_value(fs, next_uid_node, str(int(uids[1]) + 1), DefaultFp),
             name, uids[1], kwargs)

AddUnlessNamed(fs, name, kwargs, users) ==
    IF ~AllNamed(users) THEN Raise(fs, "KeyError")
    ELSE IF AnyNamed(users, name) THEN Return(fs, "False")
    ELSE AllocateUid(fs, name, kwargs, get_config_values(fs, next_uid_node))

add_user(fs, name, kwargs) ==
    IF name = <<>> THEN Return(fs, "False")
    ELSE AddUnlessNamed(fs, name, kwargs, get_config_elements(fs, user_node))

(***************************************************************************)
(* Inputs and starting documents                                           *)
(***************************************************************************)
\* calls made in one run
MaxOps == 3

bob == <<"b", "o", "b">>

padded_bob == <<" ", "b", "o", "b">>

al == <<"a", "l">>

zed == <<"z", "e", "d">>

admins == <<"a", "d", "m">>

padded_admins == <<"a", "d", "m", " ">>

ops == <<"o", "p", "s">>

good_hash == <<"$", "2", "y", "$", "h">>

notbcrypt == <<"n", "o", "t", "b">>

plaintext == <<"p", "w">>

Salts == {<<"s">>, <<"t">>}

UserNames == {<<>>, bob, padded_bob}

GroupNames == {<<>>, admins, padded_admins, ops}

UserIds == {<<"8">>, <<"9">>}

KwargsChoices ==
    { <<>>,
      <<Pair("gecos", Str(<<"B", " ", "S">>)),
        Pair("expiredate", Str(<<"2", "0", "3", "0", "-", "0", "2", "-", "7">>))>>,
      <<Pair("expiredate", Str(<<"2", "0", "3", "0", "-", "0", "2", "-", "3", "0">>))>>,
      <<Pair("groups", List(<<Str(ops), Str(admins)>>))>>,
      <<Pair("passwd", Str(good_hash)), Pair("groups", Str(admins))>>,
      <<Pair("passwd", Str(notbcrypt))>> }

MembersChoices == {None, Str(bob), List(<<Str(al), Str(zed), Str(bob)>>)}

system_scope == Leaf("scope", <<"s", "y", "s", "t", "e", "m">>)

user_scope == Leaf("scope", <<"u", "s", "e", "r">>)

\* a fresh appliance: counters, no users, no groups
EmptyDocument ==
    Element("pfsense", <<>>, <<
        Leaf("version", <<"2", "3">>),
        Element("system", <<>>, <<
            Leaf("hostname", <<"f", "w">>),
            Leaf("nextuid", <<"9">>),
            Leaf("nextgid", <<"9">>) >>) >>)

\* an appliance provisioned before: two users, two groups
ProvisionedDocument ==
    Element("pfsense", <<>>, <<
        Leaf("version", <<"2", "3">>),
        Element("system", <<>>, <<
            Leaf("hostname", <<"f", "w">>),
            Leaf("nextuid", <<"9">>),
            Leaf("nextgid", <<"9">>),
            Element("group", <<>>, <<
                Leaf("name", ops), Leaf("description", ops), Leaf("gid", <<"7">>),
                system_scope >>),
            Element("user", <<>>, <<
                Leaf("name", bob), Leaf("uid", <<"7">>), user_scope,
                Leaf("descr", <<"B", " ", "S">>), Leaf("bcrypt-hash", good_hash) >>),
            Element("user", <<>>, <<
                Leaf("name", al), Leaf("uid", <<"8">>), user_scope,
                Leaf("disabled", <<>>) >>),
            Element("group", <<>>, <<
                Leaf("name", admins), Leaf("description", admins), Leaf("gid", <<"8">>),
                system_scope, Leaf("member", <<"7">>) >>) >>) >>)

StartDocuments == {EmptyDocument, ProvisionedDocument}

(***************************************************************************)
(* The run: one call of the provisioner per step.  trace holds the last    *)
(* two calls, each with its arguments, its outcome and the files before.   *)
(***************************************************************************)
Call(op, name, args, r) ==
    [op |-> op, name |-> name, args |-> args, ret |-> r.ret, exc |-> r.exc,
     before |-> files]

Record(c) == IF Len(trace) = 2 THEN <<trace[2], c>> ELSE Append(trace, c)

Do(op, name, args, r) ==
    /\ files' = r.fs
    /\ trace' = Record(Call(op, name, args, r))
    /\ steps' = steps + 1

Init ==
    /\ \E d \in StartDocuments : files = [fp \in {DefaultFp, AltFp} |-> d]
    /\ trace = <<>>
    /\ steps = 0

AddUser ==
    /\ steps < MaxOps
    /\ \E name \in UserNames, kwargs \in KwargsChoices :
        /\ name = <<>> => kwargs = <<>>
        /\ Do("add_user", name, Dict(kwargs), add_user(files, name, kwargs))

CreateGroup ==
    /\ steps < MaxOps
    /\ \E name \in GroupNames, members \in MembersChoices :
        /\ name = <<>> => members = None
        /\ Do("create_group", name, members, create_group(files, name, members))

AddUserToGroup ==
    /\ steps < MaxOps
    /\ \E user_id \in UserIds, group_name \in GroupNames \ {<<>>} :
        Do("_add_user_to_group", group_name, Str(user_id),
           _add_user_to_group(files, user_id, group_name))

SetPasswdHashed ==
    /\ steps < MaxOps
    /\ \E user \in UserNames, passwd \in {good_hash, notbcrypt} :
        /\ user = <<>> => passwd = notbcrypt
        /\ Do("set_passwd", user, Dict(<<Pair("passwd", Str(passwd)), Pair("hashed", Str(<<"1">>))>>),
              set_passwd(files, user, passwd, TRUE, <<>>))

SetPasswdPlain ==
    /\ steps < MaxOps
    /\ \E user \in UserNames \ {<<>>}, salt \in Salts :
        Do("set_passwd", user, Dict(<<Pair("passwd", Str(plaintext)), Pair("hashed", None)>>),
           set_passwd(files, user, plaintext, FALSE, salt))

LockPasswd ==
    /\ steps < MaxOps
    /\ \E name \in UserNames : Do("lock_passwd", name, None, lock_passwd(files, name))

UnlockPasswd ==
    /\ steps < MaxOps
    /\ \E name \in UserNames : Do("unlock_passwd", name, None, unlock_passwd(files, name))

ExpirePasswd ==
    /\ steps < MaxOps
    /\ \E user \in UserNames : Do("expire_passwd", user, None, expire_passwd(files, user))

Next ==
    \/ AddUser
    \/ CreateGroup
    \/ AddUserToGroup
    \/ SetPasswdHashed
    \/ SetPasswdPlain
    \/ LockPasswd
    \/ UnlockPasswd
    \/ ExpirePasswd

Spec == Init /\ [][Next]_vars

(***************************************************************************)
(* What the claims read off a state                                        *)
(***************************************************************************)
Last == trace[Len(trace)]

Prev == trace[Len(trace) - 1]

\* the elements a path selects in the configuration file
Elements(fs, tree_path) ==
    [i \in 1..Len(xpath(fs[DefaultFp], tree_path)) |->
        NodeAt(fs[DefaultFp], xpath(fs[DefaultFp], tree_path)[i])]

Users(fs) == Elements(fs, user_node)

Groups(fs) == Elements(fs, group_node)

\* the text of the first child with the tag, none when there is no such child
Field(node, tag) == IF find(node, tag) = 0 THEN <<>> ELSE node.kids[find(node, tag)].text

\* the name the mapping view shows for a record
RecordName(node) == strip(Field(node, "name"))

Named(nodes, name) == {i \in 1..Len(nodes) : RecordName(nodes[i]) = name}

IsNamed(nodes, name) == Named(nodes, name) # {}

\* the record a scan by name finds
FirstNamed(nodes, name) ==
    nodes[CHOOSE i \in Named(nodes, name) : \A j \in Named(nodes, name) : i <= j]

\* the texts of the children with the tag, in order
RECURSIVE TextsOf(_, _, _)
TextsOf(node, tag, i) ==
    IF i > Len(node.kids) THEN <<>>
    ELSE (IF node.kids[i].tag = tag THEN <<node.kids[i].text>> ELSE <<>>)
         \o TextsOf(node, tag, i + 1)

Members(group) == TextsOf(group, "member", 1)

Count(seq, x) == Cardinality({i \in 1..Len(seq) : seq[i] = x})

NextUid(fs) == int(Elements(fs, next_uid_node)[1].text)

NextGid(fs) == int(Elements(fs, next_gid_node)[1].text)

Succeeded(c) == c.exc = "" /\ c.ret = "True"

\* C1: add_user called twice in a row with the same non-empty name (the first
\* call running to its end) leaves exactly one user record of that name; the
\* second call returns False and adds no record.
C1_CreateTwiceLeavesOne ==
    (/\ Len(trace) = 2
     /\ Prev.op = "add_user" /\ Last.op = "add_user"
     /\ Prev.name = Last.name /\ Last.name # <<>>
     /\ Prev.exc = "")
    => /\ Last.exc = "" /\ Last.ret = "False"
       /\ Len(Users(files)) = Len(Users(Last.before))
       /\ Cardinality({i \in 1..Len(Users(files)) :
                          Field(Users(files)[i], "name") = Last.name}) = 1

\* the user record the call just made: the last one stored under its name
Created(fs, name) ==
    Users(fs)[CHOOSE i \in 1..Len(Users(fs)) :
                 /\ Field(Users(fs)[i], "name") = name
                 /\ \A j \in (i + 1)..Len(Users(fs)) : Field(Users(fs)[j], "name") # name]

C2Step ==
    /\ NextUid(files') =
           NextUid(files) + (IF trace'[Len(trace')].op = "add_user"
                                /\ Succeeded(trace'[Len(trace')]) THEN 1 ELSE 0)
    /\ (trace'[Len(trace')].op = "add_user" /\ Succeeded(trace'[Len(trace')]))
       => /\ int(Field(Created(files', trace'[Len(trace')].name), "uid")) = NextUid(files)
          /\ \A i \in 1..Len(Users(files)) :
                 int(Field(Users(files)[i], "uid")) < NextUid(files)

\* C2: nextuid counts the successful add_user calls: a call that succeeds
\* advances it by one and gives its user the value it held, above every uid
\* already stored; any other call, a failed add_user among them, leaves it.
C2_CounterCountsCreations == [][C2Step]_vars

\* C3: no two user records share a name, and no two group records.
C3_NamesUnique ==
    /\ \A i, j \in 1..Len(Users(files)) :
           i # j => RecordName(Users(files)[i]) # RecordName(Users(files)[j])
    /\ \A i, j \in 1..Len(Groups(files)) :
           i # j => RecordName(Groups(files)[i]) # RecordName(Groups(files)[j])

\* C5: the same user id added twice in a row to the same existing group: both
\* calls return True and the group holds the id once.
C5_MembershipIdempotent ==
    (/\ Len(trace) = 2
     /\ Prev.op = "_add_user_to_group" /\ Last.op = "_add_user_to_group"
     /\ Prev.name = Last.name /\ Prev.args = Last.args
     /\ IsNamed(Groups(Prev.before), Last.name))
    => /\ Succeeded(Prev) /\ Succeeded(Last)
       /\ IsNamed(Groups(files), Last.name)
       /\ Count(Members(FirstNamed(Groups(files), Last.name)), Last.args.text) = 1

\* the password hash the mapping view shows for the user of that name
HashOf(fs, name) == strip(Field(FirstNamed(Users(fs), name), "bcrypt-hash"))

\* C6: lock_passwd then unlock_passwd of an existing user: no record of that
\* user carries a disabled marker afterwards, and the user's password hash is
\* the same before, between and after the two calls.
C6_LockThenUnlock ==
    (/\ Len(trace) = 2
     /\ Prev.op = "lock_passwd" /\ Last.op = "unlock_passwd"
     /\ Prev.name = Last.name
     /\ IsNamed(Users(Prev.before), Last.name))
    => /\ \A i \in Named(Users(files), Last.name) : find(Users(files)[i], "disabled") = 0
       /\ IsNamed(Users(Last.before), Last.name) /\ IsNamed(Users(files), Last.name)
       /\ HashOf(Last.before, Last.name) = HashOf(Prev.before, Last.name)
       /\ HashOf(files, Last.name) = HashOf(Prev.before, Last.name)

Hashed(c) == c.op = "set_passwd" /\ Get(c.args, "hashed") # None

Secret(c) == Get(c.args, "passwd").text

\* C7: set_passwd(hashed=True) for an existing user: a secret without the $2
\* prefix returns False and leaves the document as it was; a secret with it
\* becomes the password hash of that user.
C7_HashedSecret ==
    (/\ Len(trace) >= 1
     /\ Hashed(Last)
     /\ IsNamed(Users(Last.before), Last.name))
    => IF startswith(Secret(Last), <<"$", "2">>)
       THEN /\ IsNamed(Users(files), Last.name)
            /\ Field(FirstNamed(Users(files), Last.name), "bcrypt-hash") = Secret(Last)
       ELSE Last.exc = "" /\ Last.ret = "False" /\ files = Last.before

\* the failures a caller is to expect: no name, a name taken, nobody of the name
ExpectedFailure(c) ==
    \/ c.name = <<>>
    \/ c.op = "add_user" /\ IsNamed(Users(c.before), c.name)
    \/ c.op = "create_group" /\ IsNamed(Groups(c.before), c.name)
    \/ c.op \in {"set_passwd", "lock_passwd", "unlock_passwd", "expire_passwd"}
       /\ ~IsNamed(Users(c.before), c.name)
    \/ c.op = "_add_user_to_group" /\ ~IsNamed(Groups(c.before), c.name)

\* C8: a call that returns, returns True or False; one that meets an expected
\* failure returns False and does not raise.
C8_BooleanResults ==
    Len(trace) >= 1
    => /\ Last.exc = "" => Last.ret \in {"True", "False"}
       /\ ExpectedFailure(Last) => (Last.exc = "" /\ Last.ret = "False")

\* the names a members argument lists
ListedNames(members) ==
    IF members.kind = "list" THEN [i \in 1..Len(members.items) |-> members.items[i].text]
    ELSE IF members.kind = "str" /\ members.text # <<>> THEN <<members.text>>
    ELSE <<>>

\* of the names listed, in the order listed, those some record carries
RECURSIVE PresentNames(_, _, _)
PresentNames(nodes, names, i) ==
    IF i > Len(names) THEN <<>>
    ELSE (IF IsNamed(nodes, names[i]) THEN <<names[i]>> ELSE <<>>)
         \o PresentNames(nodes, names, i + 1)

NewGroup(fs) == Groups(fs)[Len(Groups(fs))]

C9Resolved(before, group, present) ==
    /\ Len(Members(group)) = Len(present)
    /\ \A k \in 1..Len(present) :
           \E i \in Named(Users(before), present[k]) :
               strip(Field(Users(before)[i], "uid")) = Members(group)[k]

\* C9: create_group with a name that is not empty and not taken stores one
\* new group under that name; its members are, in the order the names were
\* listed, the uid of a user of each listed name that some user has, and a
\* listed name nobody has is passed over.
C9_MembersResolved ==
    (/\ Len(trace) >= 1
     /\ Last.op = "create_group"
     /\ Last.name # <<>>
     /\ ~IsNamed(Groups(Last.before), Last.name))
    => /\ Last.exc = ""
       /\ Len(Groups(files)) = Len(Groups(Last.before)) + 1
       /\ Field(NewGroup(files), "name") = Last.name
       /\ C9Resolved(Last.before, NewGroup(files),
                     PresentNames(Users(Last.before), ListedNames(Last.args), 1))

\* a group made of al, zed and bob, in that order, where al and bob are users,
\* bob stored before al, and zed is nobody
C9_Witness ==
    /\ Len(trace) >= 1
    /\ Last.op = "create_group" /\ Last.exc = ""
    /\ ListedNames(Last.args) = <<al, zed, bob>>
    /\ ~IsNamed(Users(Last.before), zed)
    /\ Len(Groups(files)) = Len(Groups(Last.before)) + 1
    /\ Members(NewGroup(files)) = <<<<"8">>, <<"7">>>>

\* the group names an add_user call lists
GroupsOf(c) ==
    IF HasKey(c.args, "groups") THEN ListedNames(Get(c.args, "groups")) ELSE <<>>

\* C10: add_user with a fresh name and a groups list naming a group that does
\* not exist returns True: the user is stored under the uid nextuid held,
\* nextuid advances by one, no group is made, and every listed group that
\* does exist holds the new uid.
C10_MissingGroupTolerated ==
    (/\ Len(trace) >= 1
     /\ Last.op = "add_user"
     /\ Last.name # <<>>
     /\ ~IsNamed(Users(Last.before), Last.name)
     /\ \E k \in 1..Len(GroupsOf(Last)) : ~IsNamed(Groups(Last.before), GroupsOf(Last)[k]))
    => /\ Succeeded(Last)
       /\ Len(Users(files)) = Len(Users(Last.before)) + 1
       /\ int(Field(Created(files, Last.name), "uid")) = NextUid(Last.before)
       /\ NextUid(files) = NextUid(Last.before) + 1
       /\ Len(Groups(files)) = Len(Groups(Last.before))
       /\ \A k \in 1..Len(GroupsOf(Last)) :
              IF IsNamed(Groups(Last.before), GroupsOf(Last)[k])
              THEN /\ IsNamed(Groups(files), GroupsOf(Last)[k])
                   /\ Count(Members(FirstNamed(Groups(files), GroupsOf(Last)[k])),
                            Field(Created(files, Last.name), "uid")) = 1
              ELSE ~IsNamed(Groups(files), GroupsOf(Last)[k])

(***************************************************************************)
(* The store on its own: callers of pfsense_utils that name the file       *)
(***************************************************************************)
MaxStoreOps == 2

hostname_node == <<"pfsense", "system", "hostname">>

domain_node == <<"pfsense", "system", "domain">>

absent_node == <<"pfsense", "nosuch", "entry">>

\* a path below the users: its parent path selects every user
priv_node == user_node \o <<"priv">>

root_node == <<"pfsense">>

StorePaths == {user_node, group_node, next_uid_node}

AppendPaths == {user_node, absent_node, priv_node, root_node}

SetPaths == {next_uid_node, hostname_node, domain_node, absent_node}

RemovePaths == {user_node, group_node, absent_node, root_node}

GetPaths == {user_node, group_node, next_uid_node, absent_node}

StoreKeys == {"name", "member"}

StoreValues == {bob, <<"7">>}

StoreRecords ==
    { Dict(<<Pair("name", Str(bob)), Pair("uid", Str(<<"9">>))>>),
      Str(<<"1", "0">>) }

\* the optional key and value of a removal
RemoveKeys == {<<>>, <<"name">>}

RemoveValues == {None, Str(bob)}

Fps == {DefaultFp, AltFp}

StoreCall(op, tree_path, key, value, node, fp, r) ==
    [op |-> op, tree_path |-> tree_path, key |-> key, value |-> value, node |-> node,
     fp |-> fp, ret |-> r.ret, exc |-> r.exc, before |-> files]

StoreDo(op, tree_path, key, value, node, fp, r) ==
    /\ files' = r.fs
    /\ trace' = Record(StoreCall(op, tree_path, key, value, node, fp, r))
    /\ steps' = steps + 1

AppendConfigElement ==
    /\ steps < MaxStoreOps
    /\ \E tree_path \in AppendPaths, element \in StoreRecords, fp \in Fps :
           StoreDo("append_config_element", tree_path, "", <<>>, element, fp,
                   append_config_element(files, tree_path, element, fp))

ReplaceConfigElement ==
    /\ steps < MaxStoreOps
    /\ \E tree_path \in StorePaths, key \in StoreKeys, value \in StoreValues,
          node \in StoreRecords, fp \in Fps :
           StoreDo("replace_config_element", tree_path, key, value, node, fp,
                   replace_config_element(files, tree_path, key, value, node, fp))

SetConfigValue ==
    /\ steps < MaxStoreOps
    /\ \E tree_path \in SetPaths, value \in StoreValues, fp \in Fps :
           StoreDo("set_config_value", tree_path, "", value, None, fp,
                   set_config_value(files, tree_path, value, fp))

RemoveConfigElement ==
    /\ steps < MaxStoreOps
    /\ \E tree_path \in RemovePaths, key \in RemoveKeys, value \in RemoveValues :
           StoreDo("remove_config_element", tree_path, key, value, None, DefaultFp,
                   remove_config_element(files, tree_path, key, value, DefaultFp))

GetConfigElement ==
    /\ steps < MaxStoreOps
    /\ \E tree_path \in GetPaths, fp \in Fps :
           StoreDo("get_config_element", tree_path, "", <<>>, None, fp,
                   get_config_element(files, tree_path, fp))

GetConfigValue ==
    /\ steps < MaxStoreOps
    /\ \E tree_path \in {next_uid_node, domain_node}, fp \in Fps :
           StoreDo("get_config_value", tree_path, "", <<>>, None, fp,
                   get_config_value(files, tree_path, fp))

NextStore ==
    \/ AppendConfigElement
    \/ ReplaceConfigElement
    \/ SetConfigValue
    \/ RemoveConfigElement
    \/ GetConfigElement
    \/ GetConfigValue

SpecStore == Init /\ [][NextStore]_vars

\* no element the path selects in the document has a key child of that text
NoMatch(root, tree_path, key, value) ==
    \A i \in 1..Len(xpath(root, tree_path)) :
        Field(NodeAt(root, xpath(root, tree_path)[i]), key) # value

\* C4: replace_config_element on a file where no element matches ends as
\* append_config_element with the same path, record and file ends: the same
\* files, the same outcome.
C4_ReplaceNoMatchIsAppend ==
    (/\ Len(trace) >= 1
     /\ Last.op = "replace_config_element"
     /\ NoMatch(Last.before[Last.fp], Last.tree_path, Last.key, Last.value))
    => /\ files = append_config_element(Last.before, Last.tree_path, Last.node, Last.fp).fs
       /\ Last.exc = append_config_element(Last.before, Last.tree_path, Last.node, Last.fp).exc

(***************************************************************************)
(* Users over time                                                         *)
(***************************************************************************)
\* a user record of the document shows this name and this uid
Holds(fs, name, uid) ==
    \E j \in 1..Len(Users(fs)) :
        /\ RecordName(Users(fs)[j]) = name
        /\ strip(Field(Users(fs)[j], "uid")) = uid

C11Step ==
    \A i \in 1..Len(Users(files)) :
        Holds(files', RecordName(Users(files)[i]), strip(Field(Users(files)[i], "uid")))

\* C11: a user record stored under a name and a uid is there, under that
\* name and that uid, after every later call of the provisioner.
C11_UsersKept == [][C11Step]_vars

\* C12: lock_passwd of an existing user called twice in a row returns True
\* both times, and the second call leaves the document the first call made.
C12_LockIdempotent ==
    (/\ Len(trace) = 2
     /\ Prev.op = "lock_passwd" /\ Last.op = "lock_passwd"
     /\ Prev.name = Last.name
     /\ IsNamed(Users(Prev.before), Last.name))
    => /\ Succeeded(Prev) /\ Succeeded(Last)
       /\ files = Last.before

(***************************************************************************)
(* The store, call by call                                                 *)
(***************************************************************************)
\* the elements a path selects in a document
ElementsAt(root, tree_path) ==
    [i \in 1..Len(xpath(root, tree_path)) |-> NodeAt(root, xpath(root, tree_path)[i])]

Mutating(c) ==
    c.op \in {"append_config_element", "replace_config_element", "remove_config_element",
              "set_config_value"}

\* C13: set_config_value on a path that selects nothing fails (the IndexError
\* of the empty match list) and leaves both files as they were.
C13_SetMissingLeafFails ==
    (/\ Len(trace) >= 1
     /\ Last.op = "set_config_value"
     /\ ElementsAt(Last.before[Last.fp], Last.tree_path) = <<>>)
    => /\ Last.exc = "IndexError"
       /\ files = Last.before

\* the domain is set on a document that has the system element but no domain
C13_Witness ==
    /\ Len(trace) >= 1
    /\ Last.op = "set_config_value"
    /\ Last.tree_path = domain_node
    /\ Len(ElementsAt(Last.before[Last.fp], ParentPath(domain_node))) = 1
    /\ ElementsAt(Last.before[Last.fp], domain_node) = <<>>
    /\ Last.exc # ""
    /\ ElementsAt(files[Last.fp], domain_node) = <<>>

\* C14: append_config_element appends the converted record as the last child
\* of the parent when the parent path selects exactly one element; when it
\* selects none or several the call fails and the files are as they were.
C14_AppendNeedsOneParent ==
    (/\ Len(trace) >= 1
     /\ Last.op = "append_config_element")
    => IF Len(xpath(Last.before[Last.fp], ParentPath(Last.tree_path))) = 1
       THEN /\ Last.exc = ""
            /\ files = [Last.before EXCEPT ![Last.fp] =
                   AppendChild(@, xpath(@, ParentPath(Last.tree_path))[1],
                               _dict_to_element(LeafTag(Last.tree_path), Last.node))]
       ELSE /\ Last.exc # ""
            /\ files = Last.before

\* the members of the collection whose key child has the text
Matching(members, key, value) == {i \in 1..Len(members) : Field(members[i], key) = value}

FirstMatching(members, key, value) ==
    CHOOSE i \in Matching(members, key, value) :
        \A j \in Matching(members, key, value) : i <= j

\* C15: replace_config_element on a collection with a member whose key child
\* has the value: the call completes, the first such member is gone, the new
\* record is the last member, and the other members follow one another as
\* before, unchanged.
C15_ReplaceFirstMatch ==
    (/\ Len(trace) >= 1
     /\ Last.op = "replace_config_element"
     /\ Matching(ElementsAt(Last.before[Last.fp], Last.tree_path), Last.key, Last.value) # {})
    => /\ Last.exc = ""
       /\ ElementsAt(files[Last.fp], Last.tree_path) =
              Without(ElementsAt(Last.before[Last.fp], Last.tree_path),
                      FirstMatching(ElementsAt(Last.before[Last.fp], Last.tree_path),
                                    Last.key, Last.value))
              \o <<_dict_to_element(LeafTag(Last.tree_path), Last.node)>>

\* the members that stay when those with the key value go
RECURSIVE Staying(_, _, _, _)
Staying(members, key, value, i) ==
    IF i > Len(members) THEN <<>>
    ELSE (IF Field(members[i], key) = value THEN <<>> ELSE <<members[i]>>)
         \o Staying(members, key, value, i + 1)

\* C16: remove_config_element on a collection below the root completes; with
\* neither key nor value it leaves no member, with both it leaves exactly the
\* members whose key child does not have the value, in their order.
C16_RemoveByKey ==
    (/\ Len(trace) >= 1
     /\ Last.op = "remove_config_element"
     /\ Len(Last.tree_path) > 1)
    => /\ Last.exc = ""
       /\ (Last.key = <<>> /\ Last.value = None)
          => ElementsAt(files[Last.fp], Last.tree_path) = <<>>
       /\ (Last.key # <<>> /\ Last.value # None)
          => ElementsAt(files[Last.fp], Last.tree_path) =
                 Staying(ElementsAt(Last.before[Last.fp], Last.tree_path),
                         Last.key[1], Last.value.text, 1)

\* C18: get_config_element does not raise; for one match it returns the
\* record of that element, for several the list of their records in document
\* order, and for none the empty list, which is neither of the two.
C18_GetElementShapes ==
    (/\ Len(trace) >= 1
     /\ Last.op = "get_config_element")
    => /\ Last.exc = ""
       /\ files = Last.before
       /\ IF Len(ElementsAt(Last.before[Last.fp], Last.tree_path)) = 1
          THEN /\ Last.ret.kind # "list"
               /\ Last.ret = _element_to_dict(ElementsAt(Last.before[Last.fp], Last.tree_path)[1])
          ELSE /\ Last.ret.kind = "list"
               /\ Len(Last.ret.items) = Len(ElementsAt(Last.before[Last.fp], Last.tree_path))
               /\ \A i \in 1..Len(Last.ret.items) :
                      Last.ret.items[i] =
                          _element_to_dict(ElementsAt(Last.before[Last.fp], Last.tree_path)[i])

\* the counter is read, one match, and then a path that selects nothing
C18_Witness ==
    /\ Len(trace) = 2
    /\ Prev.op = "get_config_element" /\ Last.op = "get_config_element"
    /\ Prev.tree_path = next_uid_node /\ Prev.ret = Str(<<"9">>)
    /\ Last.tree_path = absent_node /\ Last.ret = List(<<>>)

\* C19: a call of append, replace, remove or set that raises leaves both
\* files as they were before the call.
C19_FailureKeepsDocument ==
    (/\ Len(trace) >= 1
     /\ Mutating(Last)
     /\ Last.exc # "")
    => files = Last.before

\* a replacement that fails on a group without the key child although a later
\* group matches, after a call that did change the file
C19_Witness ==
    /\ Len(trace) = 2
    /\ Mutating(Prev) /\ Prev.exc = "" /\ Prev.before # Last.before
    /\ Last.op = "replace_config_element"
    /\ Last.exc = "AttributeError"
    /\ Matching(ElementsAt(Last.before[Last.fp], Last.tree_path), Last.key, Last.value) # {}

(***************************************************************************)
(* The codec on its own: an element is turned into its mapping and the     *)
(* mapping back into an element of the same tag.                           *)
(***************************************************************************)
MaxFields == 3

\* the children the provisioner writes: texts, with and without surrounding
\* blanks, an empty leaf, a repeated tag, a nested record
CodecFields ==
    { Leaf("name", bob), Leaf("name", padded_bob), Leaf("disabled", <<>>),
      Leaf("member", <<"7">>), Leaf("member", <<"8">>),
      Element("item", <<>>, <<Leaf("member", <<"7">>), Leaf("descr", <<"B", " ", "S">>)>>) }

CodecElements ==
    {Element("group", <<>>, kids) :
        kids \in UNION {[1..n -> CodecFields] : n \in 0..MaxFields}}
    \cup {Leaf("nextuid", <<"9">>), Leaf("descr", <<" ", "B", " ">>)}

InitCodec ==
    /\ files = [fp \in {DefaultFp, AltFp} |-> EmptyDocument]
    /\ \E e \in CodecElements : trace = <<[op |-> "element", element |-> e]>>
    /\ steps = 0

ElementToDict ==
    /\ steps = 0
    /\ trace' = Append(trace, [op |-> "_element_to_dict",
                               record |-> _element_to_dict(trace[1].element)])
    /\ steps' = 1
    /\ UNCHANGED files

DictToElement ==
    /\ steps = 1
    /\ trace' = Append(trace, [op |-> "_dict_to_element",
                               element |-> _dict_to_element(trace[1].element.tag,
                                                            trace[2].record)])
    /\ steps' = 2
    /\ UNCHANGED files

NextCodec == ElementToDict \/ DictToElement

SpecCodec == InitCodec /\ [][NextCodec]_vars

TagsOf(e) == {e.kids[i].tag : i \in 1..Len(e.kids)}

\* the children of the tag, in their order
RECURSIVE Tagged(_, _, _)
Tagged(e, tag, i) ==
    IF i > Len(e.kids) THEN <<>>
    ELSE (IF e.kids[i].tag = tag THEN <<e.kids[i]>> ELSE <<>>) \o Tagged(e, tag, i + 1)

\* the text of a leaf as it is compared: as stored, or without the blanks
\* around it
Shown(text, trimmed) == IF trimmed THEN strip(text) ELSE text

\* two elements have the same tag, the same fields, the same values, and the
\* same order among the children of one tag
RECURSIVE Alike(_, _, _)
Alike(e, r, trimmed) ==
    /\ r.tag = e.tag
    /\ TagsOf(r) = TagsOf(e)
    /\ e.kids = <<>> => Shown(r.text, trimmed) = Shown(e.text, trimmed)
    /\ \A tag \in TagsOf(e) :
           /\ Len(Tagged(r, tag, 1)) = Len(Tagged(e, tag, 1))
           /\ \A k \in 1..Len(Tagged(e, tag, 1)) :
                  Alike(Tagged(e, tag, 1)[k], Tagged(r, tag, 1)[k], trimmed)

\* C17, as claimed: the element that comes back has the fields, the values
\* and the order among children of one tag of the element that went in.
C17_RoundTripExact ==
    steps = 2 => Alike(trace[1].element, trace[3].element, FALSE)

\* C17, amended: the same, the text of every leaf compared without the blanks
\* around it.
C17_RoundTripTrimmed ==
    steps = 2 => Alike(trace[1].element, trace[3].element, TRUE)

\* an element with a member, a padded name and another member, in that order,
\* has come back with its children in another order
C17_Witness ==
    /\ steps = 2
    /\ trace[1].element.kids =
           <<Leaf("member", <<"8">>), Leaf("name", padded_bob), Leaf("member", <<"7">>)>>
    /\ trace[3].element.kids # trace[1].element.kids
    /\ Tagged(trace[3].element, "member", 1) =
           <<Leaf("member", <<"8">>), Leaf("member", <<"7">>)>>

(***************************************************************************)
(* tree.write(fp) in time.  The file is opened for writing, which empties  *)
(* it, and the document is written into it piece by piece, here one child  *)
(* of the root at a time; the process may be stopped at any point.         *)
(***************************************************************************)
\* what the file holds when the first k children of the root are written:
\* no document, which the tag "" stands for
Torn(root, k) == [root EXCEPT !.tag = "", !.kids = SubSeq(@, 1, k)]

Writing == Len(trace) >= 1 /\ Last.phase = "writing"

WriteCall(op, tree_path, r, phase, written) ==
    [op |-> op, tree_path |-> tree_path, fp |-> DefaultFp, phase |-> phase,
     written |-> written, before |-> files, after |-> r.fs]

\* a call that reaches its tree.write opens the file
Open(op, tree_path, r) ==
    /\ r.exc = ""
    /\ files' = [files EXCEPT ![DefaultFp] = Torn(r.fs[DefaultFp], 0)]
    /\ trace' = Record(WriteCall(op, tree_path, r, "writing", 0))
    /\ UNCHANGED steps

BeginWrite ==
    /\ steps < MaxStoreOps
    /\ ~Writing
    /\ \/ \E tree_path \in AppendPaths, element \in StoreRecords :
              Open("append_config_element", tree_path,
                   append_config_element(files, tree_path, element, DefaultFp))
       \/ \E tree_path \in StorePaths, key \in StoreKeys, value \in StoreValues,
             node \in StoreRecords :
              Open("replace_config_element", tree_path,
                   replace_config_element(files, tree_path, key, value, node, DefaultFp))
       \/ \E tree_path \in SetPaths, value \in StoreValues :
              Open("set_config_value", tree_path,
                   set_config_value(files, tree_path, value, DefaultFp))
       \/ \E tree_path \in RemovePaths, key \in RemoveKeys, value \in RemoveValues :
              Open("remove_config_element", tree_path,
                   remove_config_element(files, tree_path, key, value, DefaultFp))

WriteMore ==
    /\ Writing
    /\ Last.written < Len(Last.after[DefaultFp].kids)
    /\ files' = [files EXCEPT ![DefaultFp] = Torn(Last.after[DefaultFp], Last.written + 1)]
    /\ trace' = [trace EXCEPT ![Len(trace)].written = @ + 1]
    /\ UNCHANGED steps

FinishWrite ==
    /\ Writing
    /\ Last.written = Len(Last.after[DefaultFp].kids)
    /\ files' = Last.after
    /\ trace' = [trace EXCEPT ![Len(trace)].phase = "done"]
    /\ steps' = steps + 1

\* the process is stopped while the file is open; nothing runs after that
Interrupt ==
    /\ Writing
    /\ trace' = [trace EXCEPT ![Len(trace)].phase = "interrupted"]
    /\ steps' = MaxStoreOps
    /\ UNCHANGED files

NextWrite == BeginWrite \/ WriteMore \/ FinishWrite \/ Interrupt

SpecWrite == Init /\ [][NextWrite]_vars

\* C20: when a call is interrupted while it writes, the file holds the whole
\* document of before the call or the whole document the call was writing.
C20_WriteAllOrNothing ==
    (Len(trace) >= 1 /\ Last.phase = "interrupted")
    => \/ files[Last.fp] = Last.before[Last.fp]
       \/ files[Last.fp] = Last.after[Last.fp]

(***************************************************************************)
(* What a call of the provisioner leaves alone                             *)
(***************************************************************************)
\* the field a call is to change in the record of its user
TargetField(c) == IF c.op = "set_passwd" THEN "bcrypt-hash" ELSE "disabled"

\* the fields of a record other than those of one tag
OtherFields(node, tag) == {node.kids[i] : i \in {k \in 1..Len(node.kids) : node.kids[k].tag # tag}}

\* the place of the record a scan by name finds
FirstNamedAt(nodes, name) ==
    CHOOSE i \in Named(nodes, name) : \A j \in Named(nodes, name) : i <= j

\* the record at j is the user's record of before, but for the target field,
\* and the other user records are those of before
SameButTarget(c, before, after, j) ==
    /\ OtherFields(after[j], TargetField(c))
           = OtherFields(FirstNamed(before, c.name), TargetField(c))
    /\ Without(after, j) = Without(before, FirstNamedAt(before, c.name))

\* C21: set_passwd, lock_passwd and unlock_passwd of an existing user leave
\* every field of that user's record but the one they target, every other
\* user record, every group record and both counters with the values they had.
C21_OnlyTargetChanges ==
    (/\ Len(trace) >= 1
     /\ Last.op \in {"set_passwd", "lock_passwd", "unlock_passwd"}
     /\ IsNamed(Users(Last.before), Last.name))
    => /\ Groups(files) = Groups(Last.before)
       /\ Elements(files, next_uid_node) = Elements(Last.before, next_uid_node)
       /\ Elements(files, next_gid_node) = Elements(Last.before, next_gid_node)
       /\ \E j \in 1..Len(Users(files)) :
              SameButTarget(Last, Users(Last.before), Users(files), j)

\* the call ended without creating: it raised, or it returned False
NotCreated(c) == c.exc # "" \/ c.ret = "False"

\* C22: an add_user or create_group call that does not end in success (no
\* name, a name taken, an error raised on the way) leaves the whole document,
\* the counters with it, as it was.
C22_FailedCreateChangesNothing ==
    (/\ Len(trace) >= 1
     /\ Last.op \in {"add_user", "create_group"}
     /\ NotCreated(Last))
    => files = Last.before

(***************************************************************************)
(* add_user and create_group write by write.  Each write of a call is a    *)
(* step of its own, and the process may be stopped between any two of      *)
(* them; a later call then starts from the document as it was left.  The   *)
(* calls that write once at most are one step.  The call in progress is    *)
(* the last of trace, with the place it has reached.                       *)
(***************************************************************************)
MaxCalls == 2

StepCall(op, name, args, pc, uid, ret, exc) ==
    [op |-> op, name |-> name, args |-> args, pc |-> pc, uid |-> uid, i |-> 1, j |-> 1,
     ret |-> ret, exc |-> exc, before |-> files]

InCall == Len(trace) >= 1 /\ Last.pc \in {"counter", "record"}

Amend(pc, i, j, ret, exc) ==
    [trace EXCEPT ![Len(trace)] =
        [@ EXCEPT !.pc = pc, !.i = i, !.j = j, !.ret = ret, !.exc = exc]]

Ending(r) == IF r.exc # "" THEN "raised" ELSE "done"

\* a call from its first statement to its last
Whole(op, name, args, r) ==
    /\ files' = r.fs
    /\ trace' = Record(StepCall(op, name, args, Ending(r), <<>>, r.ret, r.exc))
    /\ steps' = steps + 1

\* the call gets as far as taking an id: a name, not taken, and a counter
\* that reads as a number
Allocates(name, records, counters) ==
    /\ name # <<>>
    /\ AllNamed(records) /\ ~AnyNamed(records, name)
    /\ counters # <<>> /\ counters[1] # <<>> /\ int_ok(counters[1])

\* the record is stored before the counter
CreateWrite_record_first(k, fs, counter_node, value, record_node, record) ==
    IF k = 1 THEN append_config_element(fs, record_node, record, DefaultFp)
    ELSE set_config_value(fs, counter_node, value, DefaultFp)

\* the two writes of a creation, in their order: the counter, then the record
CreateWrite(k, fs, counter_node, value, record_node, record) ==
    IF k = 1 THEN set_config_value(fs, counter_node, value, DefaultFp)
    ELSE append_config_element(fs, record_node, record, DefaultFp)

\* the first write is done, or has raised
Started(op, name, args, uid, r) ==
    /\ files' = r.fs
    /\ trace' = Record(StepCall(op, name, args,
                                IF r.exc # "" THEN "raised" ELSE "counter", uid, "", r.exc))
    /\ steps' = steps + 1

BeginUser(name, kwargs, users, uids) ==
    IF ~Allocates(name, users, uids)
    THEN Whole("add_user", name, Dict(kwargs), add_user(files, name, kwargs))
    ELSE Started("add_user", name, Dict(kwargs), uids[1],
                 CreateWrite(1, files, next_uid_node, str(int(uids[1]) + 1),
                             user_node, UserRecord(name, uids[1])))

BeginAddUser ==
    /\ steps < MaxCalls
    /\ ~InCall
    /\ \E name \in UserNames, kwargs \in KwargsChoices :
        /\ name = <<>> => kwargs = <<>>
        /\ BeginUser(name, kwargs, get_config_elements(files, user_node),
                     get_config_values(files, next_uid_node))

\* a later write of the call is done, or has raised
Reached(r, i, j) ==
    /\ files' = r.fs
    /\ trace' = Amend(IF r.exc # "" THEN "raised" ELSE "record", i, j, "", r.exc)
    /\ UNCHANGED steps

AppendProps(props) ==
    IF ~props.ok THEN Reached(Raise(files, "ValueError"), 1, 1)
    ELSE Reached(CreateWrite(2, files, next_uid_node, str(int(Last.uid) + 1),
                             user_node, props.user), 1, 1)

AppendUser ==
    /\ InCall
    /\ Last.op = "add_user" /\ Last.pc = "counter"
    /\ AppendProps(UserProperties(UserRecord(Last.name, Last.uid), Last.args.items, 1))

GroupList(val) == IF val.kind = "list" THEN val.items ELSE <<val>>

\* the second loop over kwargs, one membership or one password at a time
OneProperty(kw) ==
    IF kw.key = "groups"
    THEN IF Last.j > Len(GroupList(kw.val))
         THEN Reached(Return(files, "None"), Last.i + 1, 1)
         ELSE Reached(_add_user_to_group(files, Last.uid, GroupList(kw.val)[Last.j].text),
                      Last.i, Last.j + 1)
    ELSE IF kw.key = "passwd"
    THEN Reached(set_passwd(files, Last.name, kw.val.text, TRUE, <<>>), Last.i + 1, 1)
    ELSE Reached(Return(files, "None"), Last.i + 1, 1)

AddUserProperty ==
    /\ InCall
    /\ Last.op = "add_user" /\ Last.pc = "record"
    /\ Last.i <= Len(Last.args.items)
    /\ OneProperty(Last.args.items[Last.i])

FinishAddUser ==
    /\ InCall
    /\ Last.op = "add_user" /\ Last.pc = "record"
    /\ Last.i > Len(Last.args.items)
    /\ files' = sync_users_groups(files)
    /\ trace' = Amend("done", Last.i, Last.j, "True", "")
    /\ UNCHANGED steps

BeginGroup(name, members, groups, gids) ==
    IF ~Allocates(name, groups, gids)
    THEN Whole("create_group", name, members, create_group(files, name, members))
    ELSE Started("create_group", name, members, gids[1],
                 CreateWrite(1, files, next_gid_node, str(int(gids[1]) + 1),
                             group_node, GroupRecord(name, gids[1], <<>>)))

BeginCreateGroup ==
    /\ steps < MaxCalls
    /\ ~InCall
    /\ \E name \in GroupNames, members \in MembersChoices :
        /\ name = <<>> => members = None
        /\ BeginGroup(name, members, get_config_elements(files, group_node),
                      get_config_values(files, next_gid_node))

Ended(r) ==
    /\ files' = r.fs
    /\ trace' = Amend(Ending(r), 1, 1, r.ret, r.exc)
    /\ UNCHANGED steps

GroupStored(resolved) ==
    IF ~resolved.ok THEN Ended(Raise(files, "KeyError"))
    ELSE Ended(Returning(
             CreateWrite(2, files, next_gid_node, str(int(Last.uid) + 1),
                         group_node, GroupRecord(Last.name, Last.uid, resolved.member)),
             "None"))

GroupResolved(existing_users) ==
    IF ~AllNamed(existing_users) THEN Ended(Raise(files, "KeyError"))
    ELSE GroupStored(ResolveMembers(existing_users, MemberList(Last.args), 1, <<>>))

AppendGroup ==
    /\ InCall
    /\ Last.op = "create_group" /\ Last.pc = "counter"
    /\ GroupResolved(get_config_elements(files, user_node))

\* the process is stopped between two writes of a call
Stop ==
    /\ InCall
    /\ trace' = Amend("stopped", Last.i, Last.j, "", "")
    /\ UNCHANGED <<files, steps>>

CallLockPasswd ==
    /\ steps < MaxCalls
    /\ ~InCall
    /\ \E name \in UserNames \ {<<>>} :
        Whole("lock_passwd", name, None, lock_passwd(files, name))

CallSetPasswd ==
    /\ steps < MaxCalls
    /\ ~InCall
    /\ \E user \in UserNames \ {<<>>} :
        Whole("set_passwd", user, Str(good_hash), set_passwd(files, user, good_hash, TRUE, <<>>))

NextSteps ==
    \/ BeginAddUser
    \/ AppendUser
    \/ AddUserProperty
    \/ FinishAddUser
    \/ BeginCreateGroup
    \/ AppendGroup
    \/ Stop
    \/ CallLockPasswd
    \/ CallSetPasswd

SpecSteps == Init /\ [][NextSteps]_vars

\* every stored uid is below nextuid and every stored gid below nextgid
IdsBelowCounters(fs) ==
    /\ \A i \in 1..Len(Users(fs)) : int(Field(Users(fs)[i], "uid")) < NextUid(fs)
    /\ \A i \in 1..Len(Groups(fs)) : int(Field(Groups(fs)[i], "gid")) < NextGid(fs)

\* no stored record of the kind holds the id
Unheld(nodes, tag, id) == \A i \in 1..Len(nodes) : int(Field(nodes[i], tag)) # int(id)

\* C23: in every stored document, those between the writes of one call
\* among them, every uid is below nextuid and every gid below nextgid; and
\* the id a call has just taken, a call after a stopped one included, is
\* held by no stored record.
C23_IdsBelowCounters ==
    /\ IdsBelowCounters(files)
    /\ (Len(trace) >= 1 /\ Last.pc = "counter")
       => IF Last.op = "add_user" THEN Unheld(Users(files), "uid", Last.uid)
          ELSE Unheld(Groups(files), "gid", Last.uid)

\* add_user was stopped after its counter write; the same call made again
\* has taken the next id and stored its record under it
C23_Witness ==
    /\ Len(trace) = 2
    /\ Prev.op = "add_user" /\ Prev.pc = "stopped" /\ Prev.i = 1
    /\ Users(Last.before) = Users(Prev.before)
    /\ NextUid(Last.before) = NextUid(Prev.before) + 1
    /\ Last.op = "add_user" /\ Last.name = Prev.name /\ Last.pc = "record"
    /\ int(Last.uid) = int(Prev.uid) + 1
    /\ \E i \in 1..Len(Users(files)) :
           /\ Field(Users(files)[i], "name") = Last.name
           /\ Field(Users(files)[i], "uid") = Last.uid

(***************************************************************************)
(* The scan by name and the replace that follows it                        *)
(***************************************************************************)
\* the records a call scans by name: the groups for a membership, the users
\* for the rest
Scanned(c, fs) == IF c.op = "_add_user_to_group" THEN Groups(fs) ELSE Users(fs)

\* C24: when set_passwd, lock_passwd, unlock_passwd or _add_user_to_group
\* finds its record by name and goes on to write, the stored name of that
\* record is the name the replace looks for, and the call leaves the number
\* of user records and the number of group records as they were.
C24_ScanAndReplaceAgree ==
    (/\ Len(trace) >= 1
     /\ Last.op \in {"set_passwd", "lock_passwd", "unlock_passwd", "_add_user_to_group"}
     /\ IsNamed(Scanned(Last, Last.before), Last.name)
     /\ files # Last.before)
    => /\ Field(FirstNamed(Scanned(Last, Last.before), Last.name), "name") = Last.name
       /\ Len(Users(files)) = Len(Users(Last.before))
       /\ Len(Groups(files)) = Len(Groups(Last.before))

\* C25: unlock_passwd of an existing user whose record has no disabled
\* marker returns True without raising, and the record is stored afterwards
\* with the fields it had and no disabled marker.
C25_UnlockUnlocked ==
    (/\ Len(trace) >= 1
     /\ Last.op = "unlock_passwd"
     /\ IsNamed(Users(Last.before), Last.name)
     /\ find(FirstNamed(Users(Last.before), Last.name), "disabled") = 0)
    => /\ Succeeded(Last)
       /\ \E j \in 1..Len(Users(files)) :
              /\ find(Users(files)[j], "disabled") = 0
              /\ OtherFields(Users(files)[j], "disabled")
                     = OtherFields(FirstNamed(Users(Last.before), Last.name), "disabled")

====
